---- MODULE Spec2Model ----
(***************************************************************************)
(* A model of src/main.py: the YAML configuration and secrets validators   *)
(* (ConfigValidator), the data-folder check (FileManager) and the          *)
(* top-level pipeline (main, handle_inquiries and the three create_*       *)
(* flows).                                                                 *)
(*                                                                         *)
(* Python values are records [t, n, ...]: t is the Python type of the      *)
(* value ("null" for None, "bool", "int", "float", "str", "list", "dict"), *)
(* n its number (a bool's 0/1, an int's value, a string's identity with 0  *)
(* the empty string).  A dict is a function whose DOMAIN is its key set,   *)
(* so that `key in d`, d.get(key) and d[key] = v are modelled as Python    *)
(* does them.                                                              *)
(***************************************************************************)
EXTENDS Integers, Sequences, FiniteSets, TLC

VARIABLES
    pc,           \* position of the running code
    caller,       \* who called the validator: "direct" (a test) or "main"
    yaml_file,    \* the file validate_config is given: absent, unparseable or parsed
    parameters,   \* validate_config's local `parameters`
    evaluated,    \* the validation stages entered so far, in order
    exc,          \* the exception in flight or that ended the call (NoExc if none)
    returned,     \* what validate_config returned (NoReturn until it does)
    fs,           \* the file system under data_folder
    fs0,          \* the file system as main found it
    args,         \* main's arguments: action, style, job_url, filename
    located,      \* validate_data_folder has returned the four paths
    secrets,      \* what load_yaml returned to validate_secrets
    llm_api_key,  \* what validate_secrets returned (Unset until it does)
    selected_action, \* main's selected_action
    flow,         \* the create_* function running, and its locals
    calls,        \* the functions main and its callees have called, in order
    log,          \* the logger's records, in order
    escaped,      \* an exception has left main
    prompted      \* what inquirer.prompt handed back at each prompt shown

validatorVars == <<yaml_file, parameters, evaluated, returned>>
mainVars == <<fs, fs0, args, located, secrets, llm_api_key, selected_action, flow,
              calls, log, escaped, prompted>>
vars == <<pc, caller, exc, validatorVars, mainVars>>

----------------------------------------------------------------------------
(* Bounds of the model *)

\* lists in a document hold at most MaxLen items
MaxLen == 2
\* integers of a document range over -MaxInt .. MaxInt
MaxInt == 101

----------------------------------------------------------------------------
(* Python values *)

Scalar(t, n) == [t |-> t, n |-> n]
PyNone == Scalar("null", 0)
PyBool(b) == Scalar("bool", IF b THEN 1 ELSE 0)
PyInt(i) == Scalar("int", i)
PyFloat(i) == Scalar("float", i)
PyStr(i) == Scalar("str", i)
\* a nested container met where only its type is looked at
PyOther(t) == Scalar(t, 0)

EmptyItems == <<>>
EmptyMap == [x \in {} |-> PyNone]

Value(t, n, items, m) == [t |-> t, n |-> n, items |-> items, m |-> m]
Atom(s) == Value(s.t, s.n, EmptyItems, EmptyMap)
PyList(items) == Value("list", 0, items, EmptyMap)
PyDict(m) == Value("dict", 0, EmptyItems, m)

\* isinstance(v, T) for the types REQUIRED_CONFIG_KEYS names; bool is a
\* subclass of int in Python, so isinstance(True, int) holds
isinstance(v, T) ==
    CASE T = "bool" -> v.t = "bool"
      [] T = "int"  -> v.t \in {"int", "bool"}
      [] T = "str"  -> v.t = "str"
      [] T = "list" -> v.t = "list"
      [] T = "dict" -> v.t = "dict"

\* d.get(key): None when the key is absent
DictGet(m, key) == IF key \in DOMAIN m THEN m[key] ELSE PyNone

\* d[key] = v
DictSet(m, key, v) == [k \in (DOMAIN m) \cup {key} |-> IF k = key THEN v ELSE m[k]]

\* del d[key]
DictDel(m, key) == [k \in (DOMAIN m) \ {key} |-> m[k]]

\* bool(v): Python truthiness, as `if not secrets[secret]` uses it
Truthy(v) ==
    CASE v.t = "null" -> FALSE
      [] v.t \in {"bool", "int", "float", "str"} -> v.n # 0
      [] v.t = "list" -> Len(v.items) > 0
      [] v.t = "dict" -> DOMAIN v.m # {}

----------------------------------------------------------------------------
(* Exceptions *)

\* key: the key or sub-key a ConfigError names; names: the file names a
\* FileNotFoundError lists
Exception(type, msg, key) == [type |-> type, msg |-> msg, key |-> key, names |-> <<>>]
NoExc == Exception("none", "", "")
ConfigError(msg, key) == Exception("ConfigError", msg, key)
TypeError(msg) == Exception("TypeError", msg, "")
FileNotFoundError(msg, names) ==
    [type |-> "FileNotFoundError", msg |-> msg, key |-> "", names |-> names]

----------------------------------------------------------------------------
(* ConfigValidator's class constants *)

REQUIRED_CONFIG_KEYS ==
    << <<"remote", "bool">>,
       <<"experience_level", "dict">>,
       <<"job_types", "dict">>,
       <<"date", "dict">>,
       <<"positions", "list">>,
       <<"locations", "list">>,
       <<"location_blacklist", "list">>,
       <<"distance", "int">>,
       <<"company_blacklist", "list">>,
       <<"title_blacklist", "list">> >>

EXPERIENCE_LEVELS ==
    <<"internship", "entry", "associate", "mid_senior_level", "director", "executive">>

JOB_TYPES ==
    <<"full_time", "contract", "part_time", "temporary", "internship", "other", "volunteer">>

DATE_FILTERS == <<"all_time", "month", "week", "24_hours">>

APPROVED_DISTANCES == {0, 5, 10, 25, 50, 100}

\* the literal list of lines 95 and 100
BlacklistKeys == {"company_blacklist", "title_blacklist", "location_blacklist"}

\* the literal list of line 161, in its order
BlacklistOrder == <<"company_blacklist", "title_blacklist", "location_blacklist">>

----------------------------------------------------------------------------
(* What yaml.safe_load hands back: the top-level value of the file.  A     *)
(* mapping is a dict of Values; any other top-level value keeps its type   *)
(* and, for a list or a string, the key names for which `key in value`     *)
(* holds (list elements, substrings).                                      *)

Mapping(m) == [t |-> "dict", members |-> DOMAIN m, m |-> m]
NonMapping(t, members) == [t |-> t, members |-> members, m |-> EmptyMap]

FileAbsent == [state |-> "absent", doc |-> NonMapping("null", {})]
FileUnparseable == [state |-> "unparseable", doc |-> NonMapping("null", {})]
FileParsed(doc) == [state |-> "parsed", doc |-> doc]

NoReturn == [set |-> FALSE, doc |-> NonMapping("null", {})]
Returned(doc) == [set |-> TRUE, doc |-> doc]

Result(e, p) == [exc |-> e, p |-> p]

Min(S) == CHOOSE x \in S : \A y \in S : x <= y

\* load_yaml: open + yaml.safe_load, YAMLError and FileNotFoundError
\* turned into ConfigError
load_yaml(file) ==
    CASE file.state = "absent" ->
            Result(ConfigError("YAML file not found", ""), file.doc)
      [] file.state = "unparseable" ->
            Result(ConfigError("Error reading YAML file", ""), file.doc)
      [] file.state = "parsed" ->
            Result(NoExc, file.doc)

\* the loop of validate_config over REQUIRED_CONFIG_KEYS, from its i-th key on
RECURSIVE RequiredKeysFrom(_, _)
RequiredKeysFrom(p, i) ==
    IF i > Len(REQUIRED_CONFIG_KEYS) THEN Result(NoExc, p)
    ELSE
      LET key == REQUIRED_CONFIG_KEYS[i][1]
          expected_type == REQUIRED_CONFIG_KEYS[i][2]
      IN
      IF p.t \notin {"dict", "list", "str"}
      THEN Result(TypeError("argument is not iterable"), p)
      ELSE IF key \notin p.members
      THEN IF key \in BlacklistKeys
           THEN IF p.t = "dict"
                THEN RequiredKeysFrom(Mapping(DictSet(p.m, key, PyList(<<>>))), i + 1)
                ELSE Result(TypeError("item assignment"), p)
           ELSE Result(ConfigError("Missing required key", key), p)
      ELSE IF p.t # "dict"
      THEN Result(TypeError("indices must be integers"), p)
      ELSE IF ~isinstance(p.m[key], expected_type)
      THEN IF key \in BlacklistKeys /\ p.m[key].t = "null"
           THEN RequiredKeysFrom(Mapping(DictSet(p.m, key, PyList(<<>>))), i + 1)
           ELSE Result(ConfigError("Invalid type for key", key), p)
      ELSE RequiredKeysFrom(p, i + 1)

\* the loop with `parameters[key] = []` for every missing key, not only the
\* blacklists
RECURSIVE RequiredKeysDefaultingAllFrom(_, _)
RequiredKeysDefaultingAllFrom(p, i) ==
    IF i > Len(REQUIRED_CONFIG_KEYS) THEN Result(NoExc, p)
    ELSE
      LET key == REQUIRED_CONFIG_KEYS[i][1]
          expected_type == REQUIRED_CONFIG_KEYS[i][2]
      IN
      IF p.t # "dict" THEN RequiredKeysFrom(p, i)
      ELSE IF key \notin p.members
      THEN RequiredKeysDefaultingAllFrom(Mapping(DictSet(p.m, key, PyList(<<>>))), i + 1)
      ELSE IF ~isinstance(p.m[key], expected_type)
      THEN IF key \in BlacklistKeys /\ p.m[key].t = "null"
           THEN RequiredKeysDefaultingAllFrom(Mapping(DictSet(p.m, key, PyList(<<>>))),
                                              i + 1)
           ELSE Result(ConfigError("Invalid type for key", key), p)
      ELSE RequiredKeysDefaultingAllFrom(p, i + 1)

RequiredKeysPassDefaultsAll(p) == RequiredKeysDefaultingAllFrom(p, 1)

\* the loop without the `is None` exemption of line 100
RECURSIVE RequiredKeysRejectingNullFrom(_, _)
RequiredKeysRejectingNullFrom(p, i) ==
    IF i > Len(REQUIRED_CONFIG_KEYS) THEN Result(NoExc, p)
    ELSE
      LET key == REQUIRED_CONFIG_KEYS[i][1]
          expected_type == REQUIRED_CONFIG_KEYS[i][2]
      IN
      IF p.t # "dict" THEN RequiredKeysFrom(p, i)
      ELSE IF key \notin p.members
      THEN IF key \in BlacklistKeys
           THEN RequiredKeysRejectingNullFrom(Mapping(DictSet(p.m, key, PyList(<<>>))),
                                              i + 1)
           ELSE Result(ConfigError("Missing required key", key), p)
      ELSE IF ~isinstance(p.m[key], expected_type)
      THEN Result(ConfigError("Invalid type for key", key), p)
      ELSE RequiredKeysRejectingNullFrom(p, i + 1)

RequiredKeysPassRejectsNull(p) == RequiredKeysRejectingNullFrom(p, 1)

RequiredKeysPass(p) == RequiredKeysFrom(p, 1)

\* the check with d[name] guarded by `name in d`, so that an absent name passes
FirstNonBoolPresentOnly(m, names) ==
    LET bad == {i \in 1..Len(names) :
                  names[i] \in DOMAIN m /\ ~isinstance(m[names[i]], "bool")}
    IN IF bad = {} THEN 0 ELSE Min(bad)

\* the first name of `names` that the dict does not map to a bool (0 if none):
\* where the loops of the three _validate_* methods raise
FirstNonBool(m, names) ==
    LET bad == {i \in 1..Len(names) : ~isinstance(DictGet(m, names[i]), "bool")}
    IN IF bad = {} THEN 0 ELSE Min(bad)

_validate_experience_levels(p) ==
    LET i == FirstNonBool(p.m["experience_level"].m, EXPERIENCE_LEVELS)
    IN IF i = 0 THEN Result(NoExc, p)
       ELSE Result(ConfigError("Experience level must be a boolean", EXPERIENCE_LEVELS[i]), p)

_validate_job_types(p) ==
    LET i == FirstNonBool(p.m["job_types"].m, JOB_TYPES)
    IN IF i = 0 THEN Result(NoExc, p)
       ELSE Result(ConfigError("Job type must be a boolean", JOB_TYPES[i]), p)

_validate_date_filters(p) ==
    LET i == FirstNonBool(p.m["date"].m, DATE_FILTERS)
    IN IF i = 0 THEN Result(NoExc, p)
       ELSE Result(ConfigError("Date filter must be a boolean", DATE_FILTERS[i]), p)

AllStrings(items) == \A j \in 1..Len(items) : isinstance(items[j], "str")

_validate_list_of_strings(p, keys) ==
    LET bad == {i \in 1..Len(keys) : ~AllStrings(p.m[keys[i]].items)}
    IN IF bad = {} THEN Result(NoExc, p)
       ELSE Result(ConfigError("must be a list of strings", keys[Min(bad)]), p)

\* `distance not in APPROVED_DISTANCES`: set membership by == and hash, under
\* which False == 0, True == 1 and 5.0 == 5
_validate_distance(p) ==
    LET distance == p.m["distance"] IN
    IF distance.t \in {"list", "dict"}
    THEN Result(TypeError("unhashable type"), p)
    ELSE IF ~(distance.t \in {"int", "bool", "float"} /\ distance.n \in APPROVED_DISTANCES)
    THEN Result(ConfigError("Invalid distance value", ""), p)
    ELSE Result(NoExc, p)

_validate_blacklists(p) ==
    LET bad == {i \in 1..Len(BlacklistOrder) :
                  ~isinstance(IF BlacklistOrder[i] \in DOMAIN p.m
                              THEN p.m[BlacklistOrder[i]] ELSE Atom(PyNone), "list")}
    IN IF bad = {} THEN Result(NoExc, p)
       ELSE Result(ConfigError("must be a list", BlacklistOrder[Min(bad)]), p)

----------------------------------------------------------------------------
(* validate_config, one action per statement of its body *)

\* where control goes when validate_config raises
Unwind == IF caller = "main" THEN "main_except" ELSE "done"

\* one statement of validate_config: enter stage `name`, then either raise or
\* go on to `next` with the (possibly updated) parameters
Statement(here, name, r, next) ==
    /\ pc = here
    /\ evaluated' = Append(evaluated, name)
    /\ parameters' = r.p
    /\ exc' = r.exc
    /\ pc' = IF r.exc = NoExc THEN next ELSE Unwind
    /\ UNCHANGED <<caller, yaml_file, returned, mainVars>>

LoadYaml ==
    Statement("validate_config", "load_yaml", load_yaml(yaml_file), "required_keys")

RequiredKeys ==
    Statement("required_keys", "required_keys", RequiredKeysPass(parameters),
              "experience_levels")

\* validate_config with the job-type, date-filter and string-list calls left
\* out after the experience levels
ValidateExperienceLevelsThenDistance ==
    Statement("experience_levels", "experience_levels",
              _validate_experience_levels(parameters), "distance")

ValidateExperienceLevels ==
    Statement("experience_levels", "experience_levels",
              _validate_experience_levels(parameters), "job_types")

ValidateJobTypes ==
    Statement("job_types", "job_types", _validate_job_types(parameters), "date_filters")

ValidateDateFilters ==
    Statement("date_filters", "date_filters", _validate_date_filters(parameters),
              "list_of_strings")

ValidateListOfStrings ==
    Statement("list_of_strings", "list_of_strings",
              _validate_list_of_strings(parameters, <<"positions", "locations">>),
              "distance")

ValidateDistance ==
    Statement("distance", "distance", _validate_distance(parameters), "blacklists")

ValidateBlacklists ==
    Statement("blacklists", "blacklists", _validate_blacklists(parameters), "return")

ReturnParameters ==
    /\ pc = "return"
    /\ returned' = Returned(parameters)
    /\ pc' = IF caller = "main" THEN "validate_secrets" ELSE "done"
    /\ UNCHANGED <<caller, yaml_file, parameters, evaluated, exc, mainVars>>

ValidateConfigNext ==
    \/ LoadYaml
    \/ RequiredKeys
    \/ ValidateExperienceLevels
    \/ ValidateJobTypes
    \/ ValidateDateFilters
    \/ ValidateListOfStrings
    \/ ValidateDistance
    \/ ValidateBlacklists
    \/ ReturnParameters

----------------------------------------------------------------------------
(* validate_secrets *)

Unset == Atom(Scalar("unset", 0))

\* validate_secrets on a file: load_yaml, then for the one mandatory secret
\* `secret not in secrets`, `not secrets[secret]`, and the value returned
validate_secrets(file) ==
    LET loaded == load_yaml(file)
        doc == loaded.p
        secret == "llm_api_key"
    IN
    IF loaded.exc # NoExc THEN [exc |-> loaded.exc, value |-> Unset]
    ELSE IF doc.t \notin {"dict", "list", "str"}
    THEN [exc |-> TypeError("argument is not iterable"), value |-> Unset]
    ELSE IF secret \notin doc.members
    THEN [exc |-> ConfigError("Missing secret", secret), value |-> Unset]
    ELSE IF doc.t # "dict"
    THEN [exc |-> TypeError("indices must be integers"), value |-> Unset]
    ELSE IF ~Truthy(doc.m[secret])
    THEN [exc |-> ConfigError("Secret cannot be empty", secret), value |-> Unset]
    ELSE [exc |-> NoExc, value |-> doc.m[secret]]

----------------------------------------------------------------------------
(* FileManager *)

\* SECRETS_YAML, WORK_PREFERENCES_YAML, PLAIN_TEXT_RESUME_YAML
REQUIRED_FILES == <<"SECRETS_YAML", "WORK_PREFERENCES_YAML", "PLAIN_TEXT_RESUME_YAML">>

\* the file system under data_folder: whether data_folder is a directory,
\* which required files exist, what data_folder/output is ("absent", "dir",
\* or "file" for anything that is no directory), the directories made under
\* output and the files written there
FileSystem(is_dir, files, output) ==
    [is_dir |-> is_dir, files |-> files, output |-> output, subdirs |-> {}, written |-> {}]

NoFileSystem == FileSystem(FALSE, {}, "absent")

\* validate_data_folder reporting the first missing file only
validate_data_folder_first_missing(f) ==
    IF ~f.is_dir
    THEN [exc |-> FileNotFoundError("Data folder not found", <<>>), fs |-> f]
    ELSE
      LET missing_files == SelectSeq(REQUIRED_FILES, LAMBDA file : file \notin f.files)
      IN
      IF missing_files # <<>>
      THEN [exc |-> FileNotFoundError("Missing files in data folder",
                                      <<missing_files[1]>>),
            fs |-> f]
      ELSE IF f.output = "file"
      THEN [exc |-> Exception("FileExistsError", "File exists", ""), fs |-> f]
      ELSE [exc |-> NoExc, fs |-> [f EXCEPT !.output = "dir"]]

\* Path.mkdir(exist_ok=True) on data_folder/output: FileExistsError is
\* suppressed only when the path is a directory
validate_data_folder(f) ==
    IF ~f.is_dir
    THEN [exc |-> FileNotFoundError("Data folder not found", <<>>), fs |-> f]
    ELSE
      LET missing_files == SelectSeq(REQUIRED_FILES, LAMBDA file : file \notin f.files)
      IN
      IF missing_files # <<>>
      THEN [exc |-> FileNotFoundError("Missing files in data folder", missing_files),
            fs |-> f]
      ELSE IF f.output = "file"
      THEN [exc |-> Exception("FileExistsError", "File exists", ""), fs |-> f]
      ELSE [exc |-> NoExc, fs |-> [f EXCEPT !.output = "dir"]]

get_uploads(f) ==
    IF "PLAIN_TEXT_RESUME_YAML" \notin f.files
    THEN FileNotFoundError("Plain text resume file not found", <<>>)
    ELSE NoExc

----------------------------------------------------------------------------
(* main and the dispatch flows *)

\* the keys of ACTION_MAPPING and the labels they map to
ACTION_MAPPING ==
    [a \in {"resume", "job", "cover"} |->
        CASE a = "resume" -> "Generate Resume"
          [] a = "job" -> "Generate Resume Tailored for Job Description"
          [] a = "cover" -> "Generate Tailored Cover Letter for Job Description"]

STYLE_MAPPING == {"clean-blue", "modern-blue", "modern-grey", "default", "cloyola-grey"}

\* the create_* function of each flow and the facade operation it calls
CreateFunction ==
    [a \in {"resume", "job", "cover"} |->
        CASE a = "resume" -> "create_resume_pdf"
          [] a = "job" -> "create_resume_pdf_job_tailored"
          [] a = "cover" -> "create_cover_letter"]
FacadeBuild == {"facade." \o CreateFunction[a] : a \in DOMAIN CreateFunction}

NoFlow ==
    [fn |-> "", ret |-> "", style_name |-> "", job_url |-> "",
     alphabet |-> TRUE, padded |-> TRUE, decoded |-> FALSE, suggested_name |-> ""]

Call(fn) == calls' = Append(calls, fn)
Log(records) == log' = log \o records

\* the exception classes of the model that only `except Exception` catches
ExceptionSubclasses ==
    {"TypeError", "AttributeError", "FileExistsError", "OSError", "binascii.Error",
     "WebDriverException"}

\* main without its last clause, `except Exception`
MainHandlerWithoutCatchAll(e) ==
    CASE e.type = "ConfigError" ->
            [caught |-> TRUE,
             log |-> <<"error:Configuration error", "error:Refer to the configuration guide">>]
      [] e.type = "FileNotFoundError" ->
            [caught |-> TRUE,
             log |-> <<"error:File not found", "error:Ensure all required files are present">>]
      [] e.type = "RuntimeError" ->
            [caught |-> TRUE, log |-> <<"error:Runtime error", "debug:traceback">>]
      [] OTHER -> [caught |-> FALSE, log |-> <<>>]

\* the except clauses of main, in their order: what each logs, and whether
\* the exception is caught at all
MainHandler(e) ==
    CASE e.type = "ConfigError" ->
            [caught |-> TRUE,
             log |-> <<"error:Configuration error", "error:Refer to the configuration guide">>]
      [] e.type = "FileNotFoundError" ->
            [caught |-> TRUE,
             log |-> <<"error:File not found", "error:Ensure all required files are present">>]
      [] e.type = "RuntimeError" ->
            [caught |-> TRUE, log |-> <<"error:Runtime error", "debug:traceback">>]
      [] e.type \in ExceptionSubclasses ->
            [caught |-> TRUE, log |-> <<"exception:An unexpected error occurred">>]
      [] OTHER -> [caught |-> FALSE, log |-> <<>>]

\* main, line 579
MainValidateDataFolder ==
    /\ pc = "main"
    /\ LET r == validate_data_folder(fs) IN
       /\ fs' = r.fs
       /\ exc' = r.exc
       /\ located' = (r.exc = NoExc)
       /\ pc' = IF r.exc = NoExc THEN "call_validate_config" ELSE "main_except"
    /\ Call("validate_data_folder")
    /\ UNCHANGED <<caller, validatorVars, fs0, args, secrets, llm_api_key,
                   selected_action, flow, log, escaped, prompted>>

\* main, line 582: the call; validate_config's own statements follow
MainCallValidateConfig(files) ==
    /\ pc = "call_validate_config"
    /\ yaml_file' \in files
    /\ pc' = "validate_config"
    /\ Call("validate_config")
    /\ UNCHANGED <<caller, exc, parameters, evaluated, returned, fs, fs0, args, located,
                   secrets, llm_api_key, selected_action, flow, log, escaped, prompted>>

\* main, line 583
MainValidateSecrets(files) ==
    /\ pc = "validate_secrets"
    /\ \E file \in files :
          LET r == validate_secrets(file) IN
          /\ secrets' = file
          /\ llm_api_key' = r.value
          /\ exc' = r.exc
          /\ pc' = IF r.exc = NoExc THEN "get_uploads" ELSE "main_except"
    /\ Call("validate_secrets")
    /\ UNCHANGED <<caller, validatorVars, fs, fs0, args, located, selected_action, flow,
                   log, escaped, prompted>>

\* main, lines 586-587: the validated dict gets its two run-time entries
MainGetUploads ==
    /\ pc = "get_uploads"
    /\ LET e == get_uploads(fs) IN
       /\ exc' = e
       /\ returned' =
            IF e = NoExc
            THEN Returned(Mapping(DictSet(DictSet(returned.doc.m,
                                                  "uploads", Atom(PyOther("dict"))),
                                          "outputFileDirectory", Atom(PyOther("path")))))
            ELSE returned
       /\ pc' = IF e = NoExc THEN "select_action" ELSE "main_except"
    /\ Call("get_uploads")
    /\ UNCHANGED <<caller, yaml_file, parameters, evaluated, fs, fs0, args, located,
                   secrets, llm_api_key, selected_action, flow, log, escaped, prompted>>

\* no prompt has been shown yet
NoPrompts == [action |-> "unasked", style |-> "unasked", job_url |-> "unasked"]

\* what inquirer.prompt can do at the action prompt: hand back None (the user
\* aborted), raise, or hand back the answers with the choice made: one of the
\* three labels, or some other string
PromptUserActionAnswers ==
    {ACTION_MAPPING[a] : a \in DOMAIN ACTION_MAPPING} \cup {"None", "raises", "Something else"}

\* prompt_user_action, lines 236-257: "" when there is no answer or the
\* prompt raises, else the choice
prompt_user_action(answer) ==
    IF answer \in {"None", "raises"} THEN "" ELSE answer

\* main, lines 590-598
MainSelectAction ==
    /\ pc = "select_action"
    /\ IF args.action # ""
       THEN IF args.action \in DOMAIN ACTION_MAPPING
            THEN /\ selected_action' = ACTION_MAPPING[args.action]
                 /\ pc' = "handle_inquiries"
                 /\ UNCHANGED <<log, calls>>
            ELSE /\ selected_action' = ""
                 /\ Log(<<"error:Invalid action">>)
                 /\ pc' = "exit"
                 /\ UNCHANGED calls
       ELSE /\ \E answer \in PromptUserActionAnswers :
                 /\ prompted' = [prompted EXCEPT !.action = answer]
                 /\ selected_action' = prompt_user_action(answer)
            /\ pc' = "handle_inquiries"
            /\ Call("prompt_user_action")
            /\ UNCHANGED log
    /\ IF args.action # "" THEN UNCHANGED prompted ELSE TRUE
    /\ UNCHANGED <<caller, exc, validatorVars, fs, fs0, args, located, secrets,
                   llm_api_key, flow, escaped>>

\* handle_inquiries, line 549
HandleInquiries ==
    /\ pc = "handle_inquiries"
    /\ Call("handle_inquiries")
    /\ IF selected_action # ""
       THEN pc' = "if_resume" /\ UNCHANGED log
       ELSE pc' = "exit" /\ Log(<<"warning:No actions selected">>)
    /\ UNCHANGED <<caller, exc, validatorVars, fs, fs0, args, located, secrets,
                   llm_api_key, selected_action, flow, escaped, prompted>>

\* the if statements written with `in` (substring) where the code has `==`:
\* the resume label is a prefix of the job-tailored label
HandleIfSubstring(here, a, next) ==
    /\ pc = here
    /\ IF \/ selected_action = ACTION_MAPPING[a]
          \/ a = "resume" /\ selected_action = ACTION_MAPPING["job"]
       THEN /\ flow' = [NoFlow EXCEPT !.fn = CreateFunction[a], !.ret = next,
                                      !.style_name = args.style, !.job_url = args.job_url]
            /\ Call(CreateFunction[a])
            /\ pc' = "flow_style"
       ELSE /\ pc' = next
            /\ UNCHANGED <<flow, calls>>
    /\ UNCHANGED <<caller, exc, validatorVars, fs, fs0, args, located, secrets,
                   llm_api_key, selected_action, log, escaped, prompted>>

\* one of the three if statements of handle_inquiries (lines 550, 554, 558):
\* call the create_* function of `a` when the selection is its label
HandleIf(here, a, next) ==
    /\ pc = here
    /\ IF selected_action = ACTION_MAPPING[a]
       THEN /\ flow' = [NoFlow EXCEPT !.fn = CreateFunction[a], !.ret = next,
                                      !.style_name = args.style, !.job_url = args.job_url]
            /\ Call(CreateFunction[a])
            /\ pc' = "flow_style"
       ELSE /\ pc' = next
            /\ UNCHANGED <<flow, calls>>
    /\ UNCHANGED <<caller, exc, validatorVars, fs, fs0, args, located, secrets,
                   llm_api_key, selected_action, log, escaped, prompted>>

HandleIfResume == HandleIf("if_resume", "resume", "if_job")
HandleIfJob == HandleIf("if_job", "job", "if_cover")
HandleIfCover == HandleIf("if_cover", "cover", "exit")

\* an exception inside a create_* function: logged there by `except Exception`,
\* again by handle_inquiries, and re-raised to main
FlowRaises(e, records) ==
    /\ exc' = e
    /\ Log(records \o <<"exception:An error occurred while creating",
                        "exception:An error occurred while handling inquiries">>)
    /\ pc' = "main_except"

\* what inquirer.prompt can hand back at the style prompt: None (the user
\* aborted), or the answers with the style chosen
PromptStyleAnswers == {"default", "modern-blue", "None"}

\* prompt_style_selection, lines 259-286: None ("") when there is no answer,
\* else the name of the style chosen
prompt_style_selection(answer) ==
    IF answer = "None" THEN "" ELSE answer

\* create_*: the style given if it is a known one, else the one prompted for,
\* else "default" (lines 323-333, 394-404, 473-483)
FlowStyle ==
    /\ pc = "flow_style"
    /\ IF flow.style_name # "" /\ flow.style_name \in STYLE_MAPPING
       THEN /\ UNCHANGED flow
            /\ Log(<<"info:Using selected style">>)
            /\ UNCHANGED <<calls, prompted>>
       ELSE /\ Call("prompt_style_selection")
            /\ \E answer \in PromptStyleAnswers :
                 LET selected_style == prompt_style_selection(answer) IN
                 /\ prompted' = [prompted EXCEPT !.style = answer]
                 /\ IF selected_style # ""
                    THEN flow' = [flow EXCEPT !.style_name = selected_style] /\ UNCHANGED log
                    ELSE /\ flow' = [flow EXCEPT !.style_name = "default"]
                         /\ Log(<<"warning:No style selected">>)
    /\ pc' = IF flow.fn = "create_resume_pdf" THEN "flow_build" ELSE "flow_job_url"
    /\ UNCHANGED <<caller, exc, validatorVars, fs, fs0, args, located, secrets,
                   llm_api_key, selected_action, escaped>>

\* what inquirer.prompt can return for the job URL: None when the user
\* aborts, else the answers with the text typed (possibly empty)
PromptJobUrlAnswers == {"None", "url", ""}

\* create_resume_pdf_job_tailored and create_cover_letter, lines 407-410 and
\* 486-489: answers.get on None raises AttributeError
FlowJobUrl ==
    /\ pc = "flow_job_url"
    /\ IF flow.job_url # ""
       THEN UNCHANGED <<flow, calls, exc, log, prompted>> /\ pc' = "flow_build"
       ELSE /\ Call("prompt_job_url")
            /\ \E answers \in PromptJobUrlAnswers :
                 /\ prompted' = [prompted EXCEPT !.job_url = answers]
                 /\ IF answers = "None"
                    THEN /\ FlowRaises(Exception("AttributeError", "NoneType has no get", ""),
                                       <<>>)
                         /\ UNCHANGED flow
                    ELSE /\ flow' = [flow EXCEPT !.job_url = answers]
                         /\ pc' = "flow_build"
                         /\ UNCHANGED <<exc, log>>
    /\ UNCHANGED <<caller, validatorVars, fs, fs0, args, located, secrets,
                   llm_api_key, selected_action, escaped>>

\* the names the facade can suggest for the output subdirectory
SuggestedNames == {"job_dir"}

\* create_*: the facade's build operation (lines 350, 428, 507) hands back a
\* string: made of base64 characters only or not, and, once the other
\* characters are dropped, correctly padded or not; or the collaborator raises
FlowBuild ==
    /\ pc = "flow_build"
    /\ Call("facade." \o flow.fn)
    /\ \/ /\ \E alphabet \in BOOLEAN, padded \in BOOLEAN, name \in SuggestedNames :
               flow' = [flow EXCEPT !.alphabet = alphabet, !.padded = padded,
                                    !.suggested_name =
                                        IF flow.fn = "create_resume_pdf" THEN "" ELSE name]
          /\ pc' = "flow_decode"
          /\ UNCHANGED <<exc, log>>
       \/ /\ FlowRaises(Exception("WebDriverException", "browser", ""), <<>>)
          /\ UNCHANGED flow
    /\ UNCHANGED <<caller, validatorVars, fs, fs0, args, located, secrets,
                   llm_api_key, selected_action, escaped, prompted>>

\* base64.b64decode(s) with validate=False: characters outside the alphabet
\* are discarded, and binascii.Error is raised for incorrect padding only
b64decode(alphabet, padded) == padded

\* create_*: lines 353-357, 431-435, 510-514
FlowDecode ==
    /\ pc = "flow_decode"
    /\ IF b64decode(flow.alphabet, flow.padded)
       THEN /\ flow' = [flow EXCEPT !.decoded = TRUE]
            /\ pc' = IF flow.fn = "create_resume_pdf" THEN "flow_write" ELSE "flow_mkdir"
            /\ UNCHANGED <<exc, log>>
       ELSE /\ FlowRaises(Exception("binascii.Error", "Incorrect padding", ""),
                          <<"error:Error decoding Base64">>)
            /\ UNCHANGED flow
    /\ UNCHANGED <<caller, validatorVars, fs, fs0, args, located, secrets,
                   llm_api_key, selected_action, calls, escaped, prompted>>

\* the two tailored flows: output_dir.mkdir(parents=True, exist_ok=True),
\* lines 442-443 and 521-522
FlowMkdir ==
    /\ pc = "flow_mkdir"
    /\ fs' = [fs EXCEPT !.subdirs = @ \cup {flow.suggested_name}]
    /\ pc' = "flow_write"
    /\ UNCHANGED <<caller, exc, validatorVars, fs0, args, located, secrets,
                   llm_api_key, selected_action, flow, calls, log, escaped, prompted>>

\* create_*: open(output_path, "wb") and write, lines 368-374, 447-453,
\* 527-532; the write succeeds or raises IOError
FlowWrite ==
    /\ pc = "flow_write"
    /\ Call("write")
    /\ \/ /\ fs' = [fs EXCEPT !.written = @ \cup {<<flow.suggested_name, flow.fn>>}]
          /\ Log(<<"info:saved">>)
          /\ pc' = flow.ret
          /\ UNCHANGED exc
       \/ /\ FlowRaises(Exception("OSError", "write failed", ""),
                        <<"error:Error writing file">>)
          /\ UNCHANGED fs
    /\ UNCHANGED <<caller, validatorVars, fs0, args, located, secrets,
                   llm_api_key, selected_action, flow, escaped, prompted>>

\* main, lines 603-616
MainExcept ==
    /\ pc = "main_except"
    /\ LET h == MainHandler(exc) IN
       /\ Log(h.log)
       /\ escaped' = ~h.caught
    /\ pc' = "exit"
    /\ UNCHANGED <<caller, exc, validatorVars, fs, fs0, args, located, secrets,
                   llm_api_key, selected_action, flow, calls, prompted>>

----------------------------------------------------------------------------
(* The configuration documents the validator is run on: the valid          *)
(* documents of BaseDocs with up to two of their fields edited.            *)

Range(f) == {f[x] : x \in DOMAIN f}

RequiredKeyNames == {REQUIRED_CONFIG_KEYS[i][1] : i \in DOMAIN REQUIRED_CONFIG_KEYS}
MapKeys == {"experience_level", "job_types", "date"}
ListKeys == {"positions", "locations"} \cup BlacklistKeys
ExtraKey == "extra"

SubKeysOf(key) ==
    CASE key = "experience_level" -> Range(EXPERIENCE_LEVELS)
      [] key = "job_types" -> Range(JOB_TYPES)
      [] key = "date" -> Range(DATE_FILTERS)

\* a dict that maps the given names to True, except `off` to False
BoolMap(names, off) == [k \in names |-> PyBool(k \notin off)]

\* the document of the round trip: empty lists, distance 0
MinimalDoc ==
    [k \in RequiredKeyNames |->
        CASE k = "remote" -> Atom(PyBool(TRUE))
          [] k = "experience_level" -> PyDict(BoolMap(Range(EXPERIENCE_LEVELS), {"entry"}))
          [] k = "job_types" -> PyDict(BoolMap(Range(JOB_TYPES), {"other"}))
          [] k = "date" -> PyDict(BoolMap(Range(DATE_FILTERS), {"month"}))
          [] k = "distance" -> Atom(PyInt(0))
          [] OTHER -> PyList(<<>>)]

\* a valid document with one blacklist absent, one null, one filled, and a
\* key the schema does not know
SparseDoc ==
    [k \in (RequiredKeyNames \ {"company_blacklist"}) \cup {ExtraKey} |->
        CASE k = "remote" -> Atom(PyBool(FALSE))
          [] k = "experience_level" ->
                PyDict(BoolMap(Range(EXPERIENCE_LEVELS) \cup {ExtraKey}, {}))
          [] k = "job_types" -> PyDict(BoolMap(Range(JOB_TYPES), Range(JOB_TYPES)))
          [] k = "date" -> PyDict(BoolMap(Range(DATE_FILTERS), {"week"}))
          [] k = "distance" -> Atom(PyInt(25))
          [] k = "positions" -> PyList(<<PyStr(1)>>)
          [] k = "title_blacklist" -> Atom(PyNone)
          [] k = "location_blacklist" -> PyList(<<PyStr(1)>>)
          [] k = ExtraKey -> Atom(PyStr(1))
          [] OTHER -> PyList(<<>>)]

BaseDocs == {MinimalDoc, SparseDoc}

\* list items: a string, an int, None
ItemPool == {PyStr(1), PyInt(1), PyNone}

RECURSIVE SeqsUpTo(_, _)
SeqsUpTo(S, n) ==
    IF n = 0 THEN {<<>>}
    ELSE LET shorter == SeqsUpTo(S, n - 1)
         IN shorter \cup {Append(q, x) : q \in {r \in shorter : Len(r) = n - 1}, x \in S}

Lists == {PyList(items) : items \in SeqsUpTo(ItemPool, MaxLen)}

Ints == {Atom(PyInt(i)) : i \in (0 - MaxInt)..MaxInt}

\* values of every type, tried at every top-level key
GeneralPool ==
    { Atom(PyNone), Atom(PyBool(TRUE)), Atom(PyBool(FALSE)), Atom(PyInt(0)),
      Atom(PyInt(1)), Atom(PyFloat(5)), Atom(PyStr(1)), Atom(PyStr(0)),
      PyList(<<>>), PyList(<<PyStr(1)>>), PyDict(EmptyMap),
      PyDict(BoolMap(Range(EXPERIENCE_LEVELS) \cup Range(JOB_TYPES)
                         \cup Range(DATE_FILTERS), {})) }

\* values of a key of a nested map
SubPool == {PyNone, PyBool(TRUE), PyBool(FALSE), PyInt(0), PyInt(1), PyStr(1)}

Edit(key, sub, del, v, s) == [key |-> key, sub |-> sub, del |-> del, v |-> v, s |-> s]
NoEdit == Edit("", "", FALSE, Atom(PyNone), PyNone)
SetKey(key, v) == Edit(key, "", FALSE, v, PyNone)
DelKey(key) == Edit(key, "", TRUE, Atom(PyNone), PyNone)
SetSub(key, sub, s) == Edit(key, sub, FALSE, Atom(PyNone), s)
DelSub(key, sub) == Edit(key, sub, TRUE, Atom(PyNone), PyNone)

ApplyEdit(m, e) ==
    IF e.key = "" THEN m
    ELSE IF e.sub = ""
    THEN IF e.del THEN DictDel(m, e.key) ELSE DictSet(m, e.key, e.v)
    ELSE IF e.key \in DOMAIN m /\ m[e.key].t = "dict"
    THEN DictSet(m, e.key,
                 PyDict(IF e.del THEN DictDel(m[e.key].m, e.sub)
                        ELSE DictSet(m[e.key].m, e.sub, e.s)))
    ELSE m

Edits ==
    {NoEdit}
    \cup {SetKey(k, v) : k \in RequiredKeyNames \cup {ExtraKey}, v \in GeneralPool}
    \cup {DelKey(k) : k \in RequiredKeyNames \cup {ExtraKey}}
    \cup {SetKey("distance", v) : v \in Ints}
    \cup {SetKey(k, v) : k \in ListKeys, v \in Lists}
    \cup UNION {{SetSub(k, sub, s) : sub \in SubKeysOf(k) \cup {ExtraKey}, s \in SubPool}
                : k \in MapKeys}
    \cup UNION {{DelSub(k, sub) : sub \in SubKeysOf(k) \cup {ExtraKey}} : k \in MapKeys}

\* one way to break (or not) each rule, combined with every edit of Edits
CoreEdits ==
    {NoEdit}
    \cup {DelKey(k) : k \in RequiredKeyNames}
    \cup {SetKey(k, Atom(PyNone)) : k \in RequiredKeyNames}
    \cup {SetKey(k, Atom(PyStr(1))) : k \in RequiredKeyNames}
    \cup {SetKey(k, PyList(<<PyInt(1)>>)) : k \in ListKeys}
    \cup {SetKey("distance", v) : v \in {Atom(PyInt(7)), Atom(PyInt(50)),
                                        Atom(PyBool(TRUE)), Atom(PyBool(FALSE))}}
    \cup {DelSub("experience_level", "internship"), DelSub("experience_level", "executive"),
          SetSub("job_types", "full_time", PyInt(1)), SetSub("job_types", "volunteer", PyNone),
          SetSub("date", "all_time", PyStr(1)), DelSub("date", "24_hours")}

MappingDocs ==
    {Mapping(ApplyEdit(ApplyEdit(base, e1), e2)) :
        base \in BaseDocs, e1 \in CoreEdits, e2 \in Edits}

\* top-level values that are no mapping: an empty file (None), a number, and
\* lists and strings with and without "remote" in them
NonMappingDocs ==
    { NonMapping("null", {}), NonMapping("int", {}),
      NonMapping("list", {}), NonMapping("list", {"remote"}),
      NonMapping("list", {"location_blacklist"}),
      NonMapping("str", {}), NonMapping("str", {"remote"}) }

ConfigFiles ==
    {FileAbsent, FileUnparseable} \cup {FileParsed(d) : d \in MappingDocs \cup NonMappingDocs}

----------------------------------------------------------------------------
(* validate_config called on its own, on every file of ConfigFiles *)

NoArgs == [action |-> "", style |-> "", job_url |-> "", filename |-> ""]

\* main is not running
MainIdle ==
    /\ fs = NoFileSystem
    /\ fs0 = NoFileSystem
    /\ args = NoArgs
    /\ located = FALSE
    /\ secrets = FileAbsent
    /\ llm_api_key = Unset
    /\ selected_action = ""
    /\ flow = NoFlow
    /\ calls = <<>>
    /\ log = <<>>
    /\ escaped = FALSE
    /\ prompted = NoPrompts

InitConfig ==
    /\ pc = "validate_config"
    /\ caller = "direct"
    /\ yaml_file \in ConfigFiles
    /\ parameters = NonMapping("null", {})
    /\ evaluated = <<>>
    /\ exc = NoExc
    /\ returned = NoReturn
    /\ MainIdle

SpecConfig == InitConfig /\ [][ValidateConfigNext]_vars

----------------------------------------------------------------------------
(* main, run on every data folder and with every combination of arguments *)

\* the work-preferences files main is run on: valid ones, one broken at each
\* of several stages, an empty file, an unparseable one
MainConfigFiles ==
    {FileUnparseable, FileParsed(NonMapping("null", {}))}
    \cup {FileParsed(Mapping(d)) :
            d \in {MinimalDoc, SparseDoc, DictDel(MinimalDoc, "remote"),
                   ApplyEdit(MinimalDoc, DelSub("date", "week")),
                   ApplyEdit(MinimalDoc, SetKey("distance", Atom(PyInt(7))))}}

\* the values of llm_api_key in the secrets files
SecretPool ==
    { Atom(PyStr(1)), Atom(PyStr(2)), Atom(PyStr(0)), Atom(PyNone), Atom(PyInt(0)),
      Atom(PyInt(MaxInt)), Atom(PyBool(TRUE)), Atom(PyBool(FALSE)), Atom(PyFloat(5)),
      PyList(<<>>), PyList(<<PyStr(1)>>), PyDict(EmptyMap) }

SecretsDocs ==
    {Mapping([k \in {"llm_api_key"} |-> v]) : v \in SecretPool}
    \cup {Mapping([k \in {"llm_api_key", ExtraKey} |-> v]) : v \in SecretPool}
    \cup {Mapping(EmptyMap), Mapping([k \in {ExtraKey} |-> Atom(PyStr(1))])}
    \cup {NonMapping("null", {}), NonMapping("int", {}), NonMapping("list", {}),
          NonMapping("list", {"llm_api_key"}), NonMapping("str", {}),
          NonMapping("str", {"llm_api_key"})}

SecretsFiles == {FileUnparseable} \cup {FileParsed(d) : d \in SecretsDocs}

FileSystems ==
    {FileSystem(FALSE, {}, "absent")}
    \cup {FileSystem(TRUE, files, output) :
            files \in SUBSET Range(REQUIRED_FILES), output \in {"absent", "dir", "file"}}

Arguments ==
    [action : {"", "resume", "job", "cover", "publish"},
     style : {"", "default", "fancy"},
     job_url : {"", "url"},
     filename : {"", "out.pdf"}]

Init ==
    /\ pc = "main"
    /\ caller = "main"
    /\ yaml_file = FileAbsent
    /\ parameters = NonMapping("null", {})
    /\ evaluated = <<>>
    /\ exc = NoExc
    /\ returned = NoReturn
    /\ fs \in FileSystems
    /\ fs0 = fs
    /\ args \in Arguments
    /\ located = FALSE
    /\ secrets = FileAbsent
    /\ llm_api_key = Unset
    /\ selected_action = ""
    /\ flow = NoFlow
    /\ calls = <<>>
    /\ log = <<>>
    /\ escaped = FALSE
    /\ prompted = NoPrompts

Next ==
    \/ MainValidateDataFolder
    \/ MainCallValidateConfig(MainConfigFiles)
    \/ ValidateConfigNext
    \/ MainValidateSecrets(SecretsFiles)
    \/ MainGetUploads
    \/ MainSelectAction
    \/ HandleInquiries
    \/ HandleIfResume
    \/ HandleIfJob
    \/ HandleIfCover
    \/ FlowStyle
    \/ FlowJobUrl
    \/ FlowBuild
    \/ FlowDecode
    \/ FlowMkdir
    \/ FlowWrite
    \/ MainExcept

Spec == Init /\ [][Next]_vars

----------------------------------------------------------------------------
(* The rules of the schema, stated on the document as it is in the file *)

\* the file holds a mapping
IsMappingFile == yaml_file.state = "parsed" /\ yaml_file.doc.t = "dict"
\* the mapping in the file
InDoc == yaml_file.doc.m
\* a direct call of validate_config has ended
DirectDone == caller = "direct" /\ pc = "done"
Succeeded == returned.set /\ exc = NoExc
Failed == ~returned.set /\ exc.type = "ConfigError"

Has(d, k) == k \in DOMAIN d
HasType(d, k, T) == Has(d, k) /\ isinstance(d[k], T)
IsBlacklistDefaulted(d, k) == k \in BlacklistKeys /\ (~Has(d, k) \/ d[k].t = "null")

\* key i of the declared order breaks the required-key/type rule
KeyViolation(d, i) ==
    LET k == REQUIRED_CONFIG_KEYS[i][1] T == REQUIRED_CONFIG_KEYS[i][2]
    IN ~HasType(d, k, T) /\ ~IsBlacklistDefaulted(d, k)
KeyMissing(d, i) ==
    LET k == REQUIRED_CONFIG_KEYS[i][1] IN ~Has(d, k) /\ k \notin BlacklistKeys

AllBool(d, k, names) ==
    /\ HasType(d, k, "dict")
    /\ \A j \in DOMAIN names : Has(d[k].m, names[j]) /\ d[k].m[names[j]].t = "bool"
StringList(d, k) ==
    HasType(d, k, "list") /\ \A j \in DOMAIN d[k].items : d[k].items[j].t = "str"
NumberApproved(d) ==
    Has(d, "distance") /\ d["distance"].t \in {"int", "bool", "float"}
                       /\ d["distance"].n \in APPROVED_DISTANCES

\* stage s (1..7) of the validation order finds its rule broken by d
StageViolated(d, s) ==
    CASE s = 1 -> \E i \in DOMAIN REQUIRED_CONFIG_KEYS : KeyViolation(d, i)
      [] s = 2 -> ~AllBool(d, "experience_level", EXPERIENCE_LEVELS)
      [] s = 3 -> ~AllBool(d, "job_types", JOB_TYPES)
      [] s = 4 -> ~AllBool(d, "date", DATE_FILTERS)
      [] s = 5 -> ~StringList(d, "positions") \/ ~StringList(d, "locations")
      [] s = 6 -> ~NumberApproved(d)
      [] s = 7 -> \E k \in BlacklistKeys :
                     ~HasType(d, k, "list") /\ ~IsBlacklistDefaulted(d, k)

ViolatedStages(d) == {s \in 1..7 : StageViolated(d, s)}

StageNames ==
    <<"required_keys", "experience_levels", "job_types", "date_filters",
      "list_of_strings", "distance", "blacklists">>

\* the stage whose error message this is
StageOfMessage(msg) ==
    CASE msg \in {"Missing required key", "Invalid type for key"} -> 1
      [] msg = "Experience level must be a boolean" -> 2
      [] msg = "Job type must be a boolean" -> 3
      [] msg = "Date filter must be a boolean" -> 4
      [] msg = "must be a list of strings" -> 5
      [] msg = "Invalid distance value" -> 6
      [] msg = "must be a list" -> 7
      [] OTHER -> 0

\* C1: a mapping that breaks the rules of one or more stages makes
\* validate_config raise one ConfigError, that of the earliest broken stage in
\* the order required keys, experience levels, job types, date filters, string
\* lists, distance, blacklists; within the first stage it names the first
\* offending key of the declared order, within the string lists positions
\* before locations; the stages entered are those up to the failing one and
\* nothing is returned.
ValidationOrderShortCircuits ==
    (DirectDone /\ IsMappingFile /\ ViolatedStages(InDoc) # {}) =>
        LET first == Min(ViolatedStages(InDoc)) IN
        /\ Failed
        /\ StageOfMessage(exc.msg) = first
        /\ evaluated = <<"load_yaml">> \o SubSeq(StageNames, 1, first)
        /\ first = 1 =>
              exc.key = REQUIRED_CONFIG_KEYS[
                  Min({i \in DOMAIN REQUIRED_CONFIG_KEYS : KeyViolation(InDoc, i)})][1]
        /\ (first = 5 /\ ~StringList(InDoc, "positions")) => exc.key = "positions"

\* C1's case: two stages broken at once, neither of them the first stage
ValidationOrderWitness ==
    /\ DirectDone /\ IsMappingFile
    /\ ViolatedStages(InDoc) = {3, 6}
    /\ exc.msg = "Job type must be a boolean"

----------------------------------------------------------------------------
(* Required keys *)

MissingKeys(d) == {i \in DOMAIN REQUIRED_CONFIG_KEYS : KeyMissing(d, i)}
KeyName(i) == REQUIRED_CONFIG_KEYS[i][1]

\* C2 as stated: a mapping missing a required non-blacklist key fails with
\* the missing-key error, naming a missing key, and naming the missing key
\* when there is exactly one, whatever the other fields hold.
MissingKeyAlwaysNamed ==
    (DirectDone /\ IsMappingFile /\ MissingKeys(InDoc) # {}) =>
        /\ Failed
        /\ exc.msg = "Missing required key"
        /\ \E i \in MissingKeys(InDoc) : exc.key = KeyName(i)

\* C2 as amended: a mapping missing a required non-blacklist key fails with a
\* ConfigError of the required-key/type pass; it is the missing-key error
\* naming the first missing key of the declared order, unless a key earlier in
\* that order is present with the wrong type, and then it is the invalid-type
\* error naming the first such key.
MissingKeyFails ==
    (DirectDone /\ IsMappingFile /\ MissingKeys(InDoc) # {}) =>
        LET missing == Min(MissingKeys(InDoc))
            mistyped == {i \in 1..(missing - 1) : KeyViolation(InDoc, i)}
        IN
        /\ Failed
        /\ IF mistyped = {}
           THEN exc.msg = "Missing required key" /\ exc.key = KeyName(missing)
           ELSE exc.msg = "Invalid type for key" /\ exc.key = KeyName(Min(mistyped))

\* C2's case: distance is the one missing key, and the error names it
MissingKeyWitness ==
    /\ DirectDone /\ IsMappingFile
    /\ MissingKeys(InDoc) = {8}
    /\ exc = ConfigError("Missing required key", "distance")

----------------------------------------------------------------------------
(* Blacklist defaulting *)

\* distance is an integer of the approved set (a bool is no integer here)
DistanceApproved(d) ==
    Has(d, "distance") /\ d["distance"].t = "int" /\ d["distance"].n \in APPROVED_DISTANCES

BooleanMapsValid(d) ==
    /\ AllBool(d, "experience_level", EXPERIENCE_LEVELS)
    /\ AllBool(d, "job_types", JOB_TYPES)
    /\ AllBool(d, "date", DATE_FILTERS)

BlacklistsLenient(d) ==
    \A k \in BlacklistKeys : ~Has(d, k) \/ d[k].t \in {"null", "list"}

\* every field but the blacklists and the distance is valid
PlainFieldsValid(d) ==
    /\ HasType(d, "remote", "bool")
    /\ StringList(d, "positions")
    /\ StringList(d, "locations")

NonBlacklistValid(d) == PlainFieldsValid(d) /\ BooleanMapsValid(d) /\ DistanceApproved(d)

\* d with every absent or null blacklist replaced by the empty list
Defaulted(d) ==
    [k \in (DOMAIN d) \cup BlacklistKeys |->
        IF IsBlacklistDefaulted(d, k) THEN PyList(<<>>) ELSE d[k]]

\* C3: when the non-blacklist fields are valid and each blacklist is absent,
\* null or a list, validate_config returns the document with the absent and
\* null blacklists replaced by empty lists and nothing else changed; the
\* minimal document comes back as it was.
BlacklistDefaulting ==
    (DirectDone /\ IsMappingFile /\ NonBlacklistValid(InDoc) /\ BlacklistsLenient(InDoc)) =>
        /\ Succeeded
        /\ returned.doc = Mapping(Defaulted(InDoc))
        /\ InDoc = MinimalDoc => returned.doc = yaml_file.doc

\* C3's case: one blacklist absent, one null, one a filled list, and an
\* unknown key, all in one validated document
BlacklistDefaultingWitness ==
    /\ DirectDone /\ IsMappingFile /\ Succeeded
    /\ \E k \in BlacklistKeys : ~Has(InDoc, k)
    /\ \E k \in BlacklistKeys : Has(InDoc, k) /\ InDoc[k].t = "null"
    /\ \E k \in BlacklistKeys : Has(InDoc, k) /\ InDoc[k] = returned.doc.m[k]
                                    /\ Len(InDoc[k].items) > 0
    /\ Has(InDoc, ExtraKey) /\ returned.doc.m[ExtraKey] = InDoc[ExtraKey]

----------------------------------------------------------------------------
(* The schema of a validated document *)

Conforms(d) ==
    /\ NonBlacklistValid(d)
    /\ \A k \in BlacklistKeys : StringList(d, k)

\* C4: whatever validate_config returns conforms to the schema of the data
\* model: remote a boolean, the three maps boolean on every required sub-key,
\* the five lists lists of strings, distance an integer of the approved set.
ReturnedConforms ==
    (DirectDone /\ returned.set) => returned.doc.t = "dict" /\ Conforms(returned.doc.m)

----------------------------------------------------------------------------
(* Nested boolean maps *)

\* the required sub-keys of map k that d[k] lacks or maps to a non-boolean
BadSubKeys(d, k) ==
    IF HasType(d, k, "dict")
    THEN {sub \in SubKeysOf(k) : ~Has(d[k].m, sub) \/ d[k].m[sub].t # "bool"}
    ELSE {}

\* C5: a nested map with a required sub-key absent or not a boolean makes
\* validate_config fail with a ConfigError (one naming such a sub-key when the
\* required-key/type pass finds nothing); with every required sub-key of the
\* three maps a boolean and the other fields valid it succeeds, whatever
\* further sub-keys the maps hold.
NestedBooleans ==
    (DirectDone /\ IsMappingFile) =>
        /\ (\E k \in MapKeys : BadSubKeys(InDoc, k) # {}) =>
              /\ Failed
              /\ ~StageViolated(InDoc, 1) =>
                    \E k \in MapKeys : exc.key \in BadSubKeys(InDoc, k)
        /\ (BooleanMapsValid(InDoc) /\ PlainFieldsValid(InDoc)
              /\ DistanceApproved(InDoc) /\ BlacklistsLenient(InDoc)) => Succeeded

\* C5's case: the last date filter is absent and the error names it
NestedBooleansWitness ==
    /\ DirectDone /\ IsMappingFile
    /\ HasType(InDoc, "date", "dict") /\ ~Has(InDoc["date"].m, "24_hours")
    /\ exc = ConfigError("Date filter must be a boolean", "24_hours")

----------------------------------------------------------------------------
(* Distance *)

\* C6: with the other fields valid, validate_config succeeds exactly when
\* distance is one of the integers 0, 5, 10, 25, 50, 100, and fails with a
\* ConfigError for every other value, integer or not.
DistanceExactlyApproved ==
    (DirectDone /\ IsMappingFile /\ PlainFieldsValid(InDoc) /\ BooleanMapsValid(InDoc)
        /\ BlacklistsLenient(InDoc)) =>
        IF DistanceApproved(InDoc) THEN Succeeded ELSE Failed

----------------------------------------------------------------------------
(* Files of every kind *)

\* C8: whatever the file is, validate_config ends with a validated document
\* or a ConfigError and nothing else; an absent or unparseable file gives the
\* ConfigError of a parse failure.
OnlyConfigErrorEscapes ==
    DirectDone =>
        /\ Succeeded \/ Failed
        /\ yaml_file.state \in {"absent", "unparseable"} =>
              Failed /\ exc.msg \in {"YAML file not found", "Error reading YAML file"}

----------------------------------------------------------------------------
(* Secrets *)

\* main has just called validate_secrets, which returned or raised
AfterValidateSecrets ==
    calls = <<"validate_data_folder", "validate_config", "validate_secrets">>

\* the secrets file holds a mapping whose llm_api_key is a non-empty string
KeyIsNonEmptyString ==
    /\ secrets.state = "parsed" /\ secrets.doc.t = "dict"
    /\ Has(secrets.doc.m, "llm_api_key")
    /\ secrets.doc.m["llm_api_key"].t = "str"
    /\ secrets.doc.m["llm_api_key"].n # 0

\* C7: on a secrets mapping validate_secrets returns exactly when llm_api_key
\* is a non-empty string, and returns that string; when the field is absent,
\* empty or no string it raises ConfigError; so the API key the dispatch stage
\* is given is always a non-empty string.
SecretsExactlyNonEmptyString ==
    /\ (AfterValidateSecrets /\ secrets.state = "parsed" /\ secrets.doc.t = "dict") =>
          IF KeyIsNonEmptyString
          THEN exc = NoExc /\ llm_api_key = secrets.doc.m["llm_api_key"]
          ELSE exc.type = "ConfigError" /\ llm_api_key = Unset
    /\ "handle_inquiries" \in Range(calls) =>
          llm_api_key.t = "str" /\ llm_api_key.n # 0

----------------------------------------------------------------------------
(* The data folder *)

\* main has just called validate_data_folder, which returned or raised
AfterValidateDataFolder == calls = <<"validate_data_folder">>

MissingFiles(f) == Range(REQUIRED_FILES) \ f.files

\* the directory-missing and files-missing parts of C9, common to the claim
\* as stated and as amended
DataFolderFailures ==
    /\ ~fs0.is_dir => exc = FileNotFoundError("Data folder not found", <<>>)
    /\ (fs0.is_dir /\ MissingFiles(fs0) # {}) =>
          /\ exc.type = "FileNotFoundError"
          /\ exc.msg = "Missing files in data folder"
          /\ Range(exc.names) = MissingFiles(fs0)
          /\ Len(exc.names) = Cardinality(MissingFiles(fs0))
    /\ exc # NoExc => fs = fs0 /\ ~located

\* C9 as stated: not a directory gives directory-missing; a non-empty set of
\* absent required files gives files-missing listing exactly those, and no
\* output directory is made; with no required file absent the call succeeds
\* and the output directory exists afterwards.
DataFolderAlwaysSucceeds ==
    AfterValidateDataFolder =>
        /\ DataFolderFailures
        /\ (fs0.is_dir /\ MissingFiles(fs0) = {}) =>
              exc = NoExc /\ located /\ fs.output = "dir"

\* C9 as amended: as stated, except that with no required file absent the
\* call succeeds when data_folder/output is absent or a directory, and fails
\* with FileExistsError, creating nothing, when output exists and is no
\* directory.
DataFolderChecked ==
    AfterValidateDataFolder =>
        /\ DataFolderFailures
        /\ (fs0.is_dir /\ MissingFiles(fs0) = {}) =>
              IF fs0.output # "file"
              THEN exc = NoExc /\ located /\ fs = [fs0 EXCEPT !.output = "dir"]
              ELSE exc.type = "FileExistsError"

\* C9's case: two of the three files are absent, the third present, and the
\* error lists the two while output stays absent
DataFolderWitness ==
    /\ AfterValidateDataFolder
    /\ fs0.is_dir /\ fs0.files = {"WORK_PREFERENCES_YAML"} /\ fs0.output = "absent"
    /\ exc.names = <<"SECRETS_YAML", "PLAIN_TEXT_RESUME_YAML">>
    /\ fs.output = "absent"

----------------------------------------------------------------------------
(* main's order *)

Prelude == <<"validate_data_folder", "validate_config", "validate_secrets">>

BuildOrWrite ==
    \/ \E i \in DOMAIN calls : calls[i] \in FacadeBuild \cup {"write"}
    \/ fs.written # {}

\* one of the three checks of main's prelude has raised
PreludeFailed == exc # NoExc /\ Len(calls) <= 3

ErrorRecords ==
    {"error:Configuration error", "error:File not found", "error:Runtime error",
     "exception:An unexpected error occurred"}

\* C10: a build operation of the facade is called, or a PDF written, only
\* after validate_data_folder, validate_config and validate_secrets have
\* succeeded, in that order; when one of them fails, control goes to main's
\* handler and then out, an error is logged, none of the three is called
\* again, no action is selected, nothing is dispatched, and no exception
\* leaves main.
NoBuildBeforeValidation ==
    /\ BuildOrWrite =>
          /\ located /\ returned.set /\ llm_api_key # Unset
          /\ Len(calls) > 3 /\ SubSeq(calls, 1, 3) = Prelude
    /\ \A i, j \in DOMAIN calls :
          (calls[i] = calls[j] /\ calls[i] \in Range(Prelude)) => i = j
    /\ PreludeFailed =>
          /\ pc \in {"main_except", "exit"}
          /\ calls = SubSeq(Prelude, 1, Len(calls))
          /\ ~BuildOrWrite
          /\ selected_action = "" /\ flow = NoFlow
          /\ pc = "exit" =>
                /\ \E i \in DOMAIN log : log[i] \in ErrorRecords
                /\ ~escaped

\* C10's case: the configuration validated, the secrets did not, and the run
\* has ended with the error logged
NoBuildWitness ==
    /\ pc = "exit" /\ PreludeFailed
    /\ returned.set /\ llm_api_key = Unset
    /\ exc.type = "ConfigError"
    /\ log # <<>>

----------------------------------------------------------------------------
(* Decoding the payload *)

\* a create_* function has had a payload back from the facade
PayloadReturned ==
    /\ flow.fn # ""
    /\ ("facade." \o flow.fn) \in Range(calls)
    /\ exc.type # "WebDriverException"

\* the payload is base64: alphabet characters only, correctly padded
ValidBase64 == flow.alphabet /\ flow.padded

\* C11: in each flow a payload that is not valid base64 ends the flow with the
\* decode error, logged and re-raised, with no file written and no output
\* subdirectory made; a file is written only once the payload has been decoded.
InvalidPayloadWritesNothing ==
    /\ (PayloadReturned /\ ~ValidBase64 /\ pc # "flow_decode") =>
          /\ exc.type = "binascii.Error"
          /\ pc \in {"main_except", "exit"}
          /\ \E i \in DOMAIN log : log[i] = "error:Error decoding Base64"
          /\ fs.written = {} /\ fs.subdirs = {}
    /\ fs.written # {} => flow.decoded


----------------------------------------------------------------------------
(* Aborted prompts *)

\* some create_* function has been called
FlowStarted == \E a \in DOMAIN CreateFunction : CreateFunction[a] \in Range(calls)

\* C12: an aborted prompt is "no selection", never a propagated error: after an
\* aborted action prompt the selection is empty and no flow runs, after an
\* aborted style prompt the style is "default", and after an aborted job-URL
\* prompt there is no exception.
AbortIsNoSelection ==
    /\ prompted.action = "None" =>
          /\ selected_action = ""
          /\ ~FlowStarted
          /\ exc = NoExc /\ ~escaped
    /\ prompted.style = "None" =>
          /\ flow.style_name = "default"
          /\ \E i \in DOMAIN log : log[i] = "warning:No style selected"
    /\ prompted.job_url = "None" =>
          /\ exc = NoExc
          /\ pc # "main_except"
          /\ ~escaped

----------------------------------------------------------------------------
(* Dispatch *)

\* the calls of create_* functions made so far
FlowCalls == {i \in DOMAIN calls : \E a \in DOMAIN CreateFunction : calls[i] = CreateFunction[a]}

\* handle_inquiries has been called and has returned or raised
DispatchOver == "handle_inquiries" \in Range(calls) /\ pc \in {"main_except", "exit"}

\* C13: handle_inquiries starts at most one flow: the flow of a label exactly when
\* the selection is that label, none when the selection is empty or any other
\* string; an action identifier outside resume, job, cover never reaches
\* handle_inquiries.
OneFlowPerSelection ==
    /\ Cardinality(FlowCalls) <= 1
    /\ \A a \in DOMAIN CreateFunction :
          /\ CreateFunction[a] \in Range(calls) =>
                /\ selected_action = ACTION_MAPPING[a]
                /\ "handle_inquiries" \in Range(calls)
          /\ (DispatchOver /\ selected_action = ACTION_MAPPING[a]) =>
                CreateFunction[a] \in Range(calls)
    /\ (args.action # "" /\ args.action \notin DOMAIN ACTION_MAPPING) =>
          /\ "handle_inquiries" \notin Range(calls)
          /\ FlowCalls = {}

\* the job-tailored label was chosen at the prompt and its flow, alone, ran to
\* the end
OneFlowWitness ==
    /\ pc = "exit"
    /\ prompted.action = ACTION_MAPPING["job"]
    /\ selected_action = ACTION_MAPPING["job"]
    /\ Cardinality(FlowCalls) = 1
    /\ "create_resume_pdf_job_tailored" \in Range(calls)
    /\ fs.written # {}

====
